---- MODULE Spec2Model ----
(***************************************************************************)
(* XMLRequestParser (xml_requests_parser.py): one availability request is  *)
(* read from an XML document, validated stage by stage and priced.         *)
(*                                                                         *)
(* Representation.                                                         *)
(*   - an optional element or attribute is a sequence of length <= 1:      *)
(*     <<>> when the document lacks it, <<text>> when it carries text;     *)
(*   - numeric text (optionsQuota, a Pax age) is a sequence of characters, *)
(*     converted by PyInt as Python's int() converts it;                   *)
(*   - a date text DD/MM/YYYY is the record [d, m, y] of its three fields, *)
(*     converted by Strptime to a datetime at midnight;                    *)
(*   - a datetime is [day |-> proleptic ordinal, tod |-> time of day in    *)
(*     ticks since midnight];                                              *)
(*   - money is an integer number of cents, a percentage an integer number *)
(*     of tenths of a percent, an exchange rate an integer number of       *)
(*     hundredths, a selling price an integer number of 1/10000;           *)
(*   - an error message is the tuple of the pieces the f-string joins.     *)
(* The response's id (timestamp + uuid) is left out: nothing reads it.     *)
(***************************************************************************)
EXTENDS Integers, Sequences, FiniteSets, TLC

VARIABLES xml, clock, pc, fields, rooms, room_idx, dates, parsed_data,
          response, error, stages

vars == <<xml, clock, pc, fields, rooms, room_idx, dates, parsed_data,
          response, error, stages>>

----------------------------------------------------------------------------
(* Bounds of the model. *)

\* longest optionsQuota text enumerated
MaxQuotaLen == 2
\* most Pax entries in an enumerated occupancy group
MaxPax == 5
\* most occupancy groups in an enumerated document
MaxRooms == 2
\* latest time of day (ticks after midnight) at which validation runs
MaxTod == 1

----------------------------------------------------------------------------
(* constants.py (not among the source files): values taken from the tests  *)
(* and the specification's reference data.                                 *)

VALID_LANGUAGES == {"en", "fr", "de", "es"}
VALID_CURRENCIES == {"EUR", "USD", "GBP"}
VALID_NATIONALITIES == {"US", "GB", "CA"}
DEFAULT_LANGUAGE == "en"
DEFAULT_CURRENCY == "EUR"
DEFAULT_NATIONALITY == "US"
CHILD_AGE_LIMIT == 5
ALLOWED_CHILD_COUNT_PER_ROOM == 2
ALLOWED_ROOM_GUEST_COUNT == 4
\* cents
NET_PRICE == 13242
\* tenths of a percent
MARKUP_PERCENTAGE == 32
\* hundredths; no entry for (USD, USD)
EXCHANGE_RATES == (<<"USD", "EUR">> :> 90) @@ (<<"USD", "GBP">> :> 79)

----------------------------------------------------------------------------
(* Conversions. *)

Digits == {"0", "1", "2", "3", "4", "5", "6", "7", "8", "9"}

DigitVal(c) ==
    CASE c = "0" -> 0 [] c = "1" -> 1 [] c = "2" -> 2 [] c = "3" -> 3
      [] c = "4" -> 4 [] c = "5" -> 5 [] c = "6" -> 6 [] c = "7" -> 7
      [] c = "8" -> 8 [] c = "9" -> 9

RECURSIVE DigitsVal(_)
DigitsVal(s) ==
    IF s = <<>> THEN 0
    ELSE DigitsVal(SubSeq(s, 1, Len(s) - 1)) * 10 + DigitVal(s[Len(s)])

\* int(text): an optional sign, then one or more decimal digits; anything
\* else raises ValueError.
PyInt(text) ==
    LET signed == text # <<>> /\ text[1] \in {"-", "+"}
        body   == IF signed THEN Tail(text) ELSE text
        ok     == body # <<>> /\ \A i \in 1..Len(body) : body[i] \in Digits
    IN  IF ok
        THEN [ok |-> TRUE,
              val |-> IF text[1] = "-" THEN 0 - DigitsVal(body) ELSE DigitsVal(body)]
        ELSE [ok |-> FALSE, val |-> 0]

\* root.findtext(path, default)
findtext(elem, default) == IF elem = <<>> THEN default ELSE elem[1]

IsLeap(y) == y % 4 = 0 /\ (y % 100 # 0 \/ y % 400 = 0)

DaysInMonth(y, m) ==
    CASE m \in {1, 3, 5, 7, 8, 10, 12} -> 31
      [] m \in {4, 6, 9, 11} -> 30
      [] m = 2 -> IF IsLeap(y) THEN 29 ELSE 28

RECURSIVE DaysBeforeMonth(_, _)
DaysBeforeMonth(y, m) ==
    IF m = 1 THEN 0 ELSE DaysBeforeMonth(y, m - 1) + DaysInMonth(y, m - 1)

DaysBeforeYear(y) ==
    (y - 1) * 365 + (y - 1) \div 4 - (y - 1) \div 100 + (y - 1) \div 400

ToOrdinal(y, m, d) == DaysBeforeYear(y) + DaysBeforeMonth(y, m) + d

\* datetime.strptime(s, "%d/%m/%Y"): TypeError for None, ValueError for a
\* day or month out of range, else the datetime at midnight of that date.
Strptime(s) ==
    IF s = <<>>
    THEN [ok |-> FALSE, type |-> "TypeError",
          msg |-> <<"strptime() argument 1 must be str, not None">>]
    ELSE LET t == s[1] IN
         IF t.m \in 1..12 /\ t.y \in 1..9999 /\ t.d \in 1..DaysInMonth(t.y, t.m)
         THEN [ok |-> TRUE, dt |-> [day |-> ToOrdinal(t.y, t.m, t.d), tod |-> 0]]
         ELSE [ok |-> FALSE, type |-> "ValueError",
               msg |-> <<"time data does not match format '%d/%m/%Y'">>]

\* datetime + timedelta(days=n)
AddDays(dt, n) == [day |-> dt.day + n, tod |-> dt.tod]

\* datetime < datetime
DatetimeLess(a, b) == a.day < b.day \/ (a.day = b.day /\ a.tod < b.tod)

\* (a - b).days: the timedelta is normalised with 0 <= seconds < 86400
TimedeltaDays(a, b) ==
    IF a.tod >= b.tod THEN a.day - b.day ELSE a.day - b.day - 1

\* round(num/den, 0) for den > 0 and num >= 0, ties to even
RoundHalfEven(num, den) ==
    LET q == num \div den
        r == num % den
    IN  IF 2 * r < den THEN q
        ELSE IF 2 * r > den THEN q + 1
        ELSE IF q % 2 = 0 THEN q ELSE q + 1

----------------------------------------------------------------------------
(* Errors. *)

ValueError(stage, msg) == <<[type |-> "ValueError", stage |-> stage, msg |-> msg]>>
Raised(stage, type, msg) == <<[type |-> type, stage |-> stage, msg |-> msg]>>
NoError == <<>>

----------------------------------------------------------------------------
(* The stages of parse_xml and generate_response, as functions of their    *)
(* arguments.                                                              *)

\* ParseFields with another default for optionsQuota
ParseFields_OtherDefault(doc) ==
    LET quota_text == findtext(doc.optionsQuota, <<"1", "0">>)
        q == PyInt(quota_text)
    IN  IF ~q.ok
        THEN [ok |-> FALSE,
              err |-> ValueError("extract",
                        <<"invalid literal for int() with base 10: ", quota_text>>)]
        ELSE [ok |-> TRUE,
              fields |-> [language       |-> findtext(doc.language, DEFAULT_LANGUAGE),
                          options_quota  |-> q.val,
                          currency       |-> findtext(doc.currency, DEFAULT_CURRENCY),
                          nationality    |-> findtext(doc.nationality, DEFAULT_NATIONALITY),
                          start_date_str |-> doc.startDate,
                          end_date_str   |-> doc.endDate]]

\* parse_xml, "Extract values with defaults"
ParseFields(doc) ==
    LET quota_text == findtext(doc.optionsQuota, <<"2", "0">>)
        q == PyInt(quota_text)
    IN  IF ~q.ok
        THEN [ok |-> FALSE,
              err |-> ValueError("extract",
                        <<"invalid literal for int() with base 10: ", quota_text>>)]
        ELSE [ok |-> TRUE,
              fields |-> [language       |-> findtext(doc.language, DEFAULT_LANGUAGE),
                          options_quota  |-> q.val,
                          currency       |-> findtext(doc.currency, DEFAULT_CURRENCY),
                          nationality    |-> findtext(doc.nationality, DEFAULT_NATIONALITY),
                          start_date_str |-> doc.startDate,
                          end_date_str   |-> doc.endDate]]

required_params == <<"password", "username", "CompanyID">>

\* CheckParameters reporting the last missing attribute instead of the first
CheckParameters_LastMissing(parameter_element) ==
    IF parameter_element = <<>>
    THEN ValueError("parameters", <<"Missing required <Parameter> element">>)
    ELSE LET missing == {i \in 1..Len(required_params) :
                            required_params[i] \notin parameter_element[1]}
         IN  IF missing = {} THEN NoError
             ELSE LET last == CHOOSE i \in missing : \A j \in missing : i >= j
                  IN  ValueError("parameters",
                        <<"Missing required parameter: ", required_params[last]>>)

\* parse_xml, "Validate required parameters"
CheckParameters(parameter_element) ==
    IF parameter_element = <<>>
    THEN ValueError("parameters", <<"Missing required <Parameter> element">>)
    ELSE LET missing == {i \in 1..Len(required_params) :
                            required_params[i] \notin parameter_element[1]}
         IN  IF missing = {} THEN NoError
             ELSE LET first == CHOOSE i \in missing : \A j \in missing : i <= j
                  IN  ValueError("parameters",
                        <<"Missing required parameter: ", required_params[first]>>)

\* _parse_rooms: pax_type
PaxType(age) == IF age <= CHILD_AGE_LIMIT THEN "Child" ELSE "Adult"

\* _parse_rooms: the inner loop over one occupancy group's Pax entries
BuildPaxList(room) ==
    LET age_text(i) == findtext(room[i], <<"0">>)
        bad == {i \in 1..Len(room) : ~PyInt(age_text(i)).ok}
    IN  IF bad # {}
        THEN LET first == CHOOSE i \in bad : \A j \in bad : i <= j
             IN  [ok |-> FALSE,
                  err |-> ValueError("rooms",
                            <<"invalid literal for int() with base 10: ", age_text(first)>>)]
        ELSE LET pax_list == [i \in 1..Len(room) |->
                                [type |-> PaxType(PyInt(age_text(i)).val),
                                 age  |-> PyInt(age_text(i)).val]]
             IN  [ok |-> TRUE,
                  pax_list |-> pax_list,
                  child_count |-> Cardinality({i \in 1..Len(room) :
                                                  pax_list[i].type = "Child"})]

\* ValidateRoom with the guest limit off by one
ValidateRoom_GuestsOffByOne(pax_list, child_count) ==
    IF child_count > ALLOWED_CHILD_COUNT_PER_ROOM
    THEN ValueError("rooms", <<"Exceeded maximum allowed children per room">>)
    ELSE IF Len(pax_list) >= ALLOWED_ROOM_GUEST_COUNT
    THEN ValueError("rooms", <<"Exceeded maximum allowed guests per room">>)
    ELSE IF child_count > 0 /\ \A i \in 1..Len(pax_list) : pax_list[i].type = "Child"
    THEN ValueError("rooms",
           <<"A child must have at least one accompanying adult in the same room">>)
    ELSE NoError

\* _validate_room
ValidateRoom(pax_list, child_count) ==
    IF child_count > ALLOWED_CHILD_COUNT_PER_ROOM
    THEN ValueError("rooms", <<"Exceeded maximum allowed children per room">>)
    ELSE IF Len(pax_list) > ALLOWED_ROOM_GUEST_COUNT
    THEN ValueError("rooms", <<"Exceeded maximum allowed guests per room">>)
    ELSE IF child_count > 0 /\ \A i \in 1..Len(pax_list) : pax_list[i].type = "Child"
    THEN ValueError("rooms",
           <<"A child must have at least one accompanying adult in the same room">>)
    ELSE NoError

\* ValidateBasicFields checking the currency before the language
ValidateBasicFields_CurrencyFirst(language, currency, nationality, options_quota) ==
    IF currency \notin VALID_CURRENCIES
    THEN ValueError("basic", <<"Invalid currency: ", currency>>)
    ELSE IF language \notin VALID_LANGUAGES
    THEN ValueError("basic", <<"Invalid language: ", language>>)
    ELSE IF nationality \notin VALID_NATIONALITIES
    THEN ValueError("basic", <<"Invalid nationality: ", nationality>>)
    ELSE IF options_quota > 50
    THEN ValueError("basic", <<"optionsQuota cannot be greater than 50">>)
    ELSE NoError

\* _validate_basic_fields
ValidateBasicFields(language, currency, nationality, options_quota) ==
    IF language \notin VALID_LANGUAGES
    THEN ValueError("basic", <<"Invalid language: ", language>>)
    ELSE IF currency \notin VALID_CURRENCIES
    THEN ValueError("basic", <<"Invalid currency: ", currency>>)
    ELSE IF nationality \notin VALID_NATIONALITIES
    THEN ValueError("basic", <<"Invalid nationality: ", nationality>>)
    ELSE IF options_quota > 50
    THEN ValueError("basic", <<"optionsQuota cannot be greater than 50">>)
    ELSE NoError

\* ValidateDates checking the stay length before the lead time
ValidateDates_StayFirst(start_date_str, end_date_str, today) ==
    LET s == Strptime(start_date_str)
        e == Strptime(end_date_str)
    IN  IF ~s.ok THEN [ok |-> FALSE, err |-> Raised("dates", s.type, s.msg)]
        ELSE IF ~e.ok THEN [ok |-> FALSE, err |-> Raised("dates", e.type, e.msg)]
        ELSE IF TimedeltaDays(e.dt, s.dt) < 3
        THEN [ok |-> FALSE,
              err |-> ValueError("dates", <<"Stay duration must be at least 3 nights">>)]
        ELSE IF DatetimeLess(s.dt, AddDays(today, 2))
        THEN [ok |-> FALSE,
              err |-> ValueError("dates", <<"StartDate must be at least 2 days from today">>)]
        ELSE [ok |-> TRUE, start_date |-> s.dt, end_date |-> e.dt]

\* _validate_dates; today is the value of datetime.today() at the call
ValidateDates(start_date_str, end_date_str, today) ==
    LET s == Strptime(start_date_str)
        e == Strptime(end_date_str)
    IN  IF ~s.ok THEN [ok |-> FALSE, err |-> Raised("dates", s.type, s.msg)]
        ELSE IF ~e.ok THEN [ok |-> FALSE, err |-> Raised("dates", e.type, e.msg)]
        ELSE IF DatetimeLess(s.dt, AddDays(today, 2))
        THEN [ok |-> FALSE,
              err |-> ValueError("dates", <<"StartDate must be at least 2 days from today">>)]
        ELSE IF TimedeltaDays(e.dt, s.dt) < 3
        THEN [ok |-> FALSE,
              err |-> ValueError("dates", <<"Stay duration must be at least 3 nights">>)]
        ELSE [ok |-> TRUE, start_date |-> s.dt, end_date |-> e.dt]

\* BuildRecord with the nationality copied from the currency
BuildRecord_NationalityFromCurrency(f, d, rs) ==
    IF rs # <<>>
    THEN [language |-> f.language, options_quota |-> f.options_quota,
          currency |-> f.currency, nationality |-> f.currency,
          start_date |-> d.start_date, end_date |-> d.end_date,
          ocg |-> "OCG_SECRET", rooms |-> rs]
    ELSE [language |-> f.language, options_quota |-> f.options_quota,
          currency |-> f.currency, nationality |-> f.currency,
          start_date |-> d.start_date, end_date |-> d.end_date,
          ocg |-> "OCG_SECRET"]

\* parse_xml: response_data, with "rooms" only when there are rooms
BuildRecord(f, d, rs) ==
    IF rs # <<>>
    THEN [language |-> f.language, options_quota |-> f.options_quota,
          currency |-> f.currency, nationality |-> f.nationality,
          start_date |-> d.start_date, end_date |-> d.end_date,
          ocg |-> "OCG_SECRET", rooms |-> rs]
    ELSE [language |-> f.language, options_quota |-> f.options_quota,
          currency |-> f.currency, nationality |-> f.nationality,
          start_date |-> d.start_date, end_date |-> d.end_date,
          ocg |-> "OCG_SECRET"]

\* calculate_selling_price: round(net + net * (markup / 100), 2), in cents
calculate_selling_price(net_price, markup) ==
    RoundHalfEven(net_price * 1000 + net_price * markup, 1000)

\* get_exchange_rate: EXCHANGE_RATES.get((from, to), 1.0), in hundredths
get_exchange_rate(from_currency, to_currency) ==
    IF <<from_currency, to_currency>> \in DOMAIN EXCHANGE_RATES
    THEN EXCHANGE_RATES[<<from_currency, to_currency>>]
    ELSE 100

\* generate_response rounding after the multiplication by the rate
generate_response_RoundAfterRate(data) ==
    LET exchange_rate == get_exchange_rate("USD", data.currency)
        selling_price ==
            100 * RoundHalfEven((NET_PRICE * 1000 + NET_PRICE * MARKUP_PERCENTAGE)
                                   * exchange_rate, 100000)
        price == [minimumSellingPrice |-> "null",
                  currency |-> data.currency,
                  net |-> NET_PRICE,
                  selling_price |-> selling_price,
                  selling_currency |-> data.currency,
                  markup |-> MARKUP_PERCENTAGE,
                  exchange_rate |-> exchange_rate]
    IN  IF "rooms" \in DOMAIN data
        THEN [hotelCodeSupplier |-> "39971881", market |-> data.nationality,
              price |-> price, rooms |-> data.rooms]
        ELSE [hotelCodeSupplier |-> "39971881", market |-> data.nationality,
              price |-> price]

\* generate_response: the response object (selling_price in 1/10000)
generate_response(data) ==
    LET exchange_rate == get_exchange_rate("USD", data.currency)
        selling_price == calculate_selling_price(NET_PRICE, MARKUP_PERCENTAGE) * exchange_rate
        price == [minimumSellingPrice |-> "null",
                  currency |-> data.currency,
                  net |-> NET_PRICE,
                  selling_price |-> selling_price,
                  selling_currency |-> data.currency,
                  markup |-> MARKUP_PERCENTAGE,
                  exchange_rate |-> exchange_rate]
    IN  IF "rooms" \in DOMAIN data
        THEN [hotelCodeSupplier |-> "39971881", market |-> data.nationality,
              price |-> price, rooms |-> data.rooms]
        ELSE [hotelCodeSupplier |-> "39971881", market |-> data.nationality,
              price |-> price]

\* StageAfter with the basic fields validated before the rooms
StageAfter_BasicBeforeRooms(stage) ==
    CASE stage = "extract"    -> "parameters"
      [] stage = "parameters" -> "basic"
      [] stage = "basic"      -> "rooms"
      [] stage = "rooms"      -> "dates"
      [] stage = "dates"      -> "record"
      [] stage = "record"     -> "price"
      [] stage = "price"      -> "done"

\* the order in which parse_xml and process_request run the stages
StageAfter(stage) ==
    CASE stage = "extract"    -> "parameters"
      [] stage = "parameters" -> "rooms"
      [] stage = "rooms"      -> "basic"
      [] stage = "basic"      -> "dates"
      [] stage = "dates"      -> "record"
      [] stage = "record"     -> "price"
      [] stage = "price"      -> "done"

----------------------------------------------------------------------------
(* The documents and clocks enumerated.                                    *)

Doc(l, q, c, n, s, e, p, r) ==
    [language |-> l, optionsQuota |-> q, currency |-> c, nationality |-> n,
     startDate |-> s, endDate |-> e, parameter |-> p, paxes |-> r]

Date(d, m, y) == <<[d |-> d, m |-> m, y |-> y]>>

\* the clock of the documents that do not vary the dates: 26/02/2025, 00:00
BaseClock == [day |-> ToOrdinal(2025, 2, 26), tod |-> 0]
GoodStart == Date(1, 3, 2025)
GoodEnd == Date(4, 3, 2025)
SoonStart == Date(26, 2, 2025)
ShortEnd == Date(3, 3, 2025)

AllParams == {"password", "username", "CompanyID"}
GoodParameter == <<AllParams>>
ParameterInputs == {<<>>} \cup {<<a>> : a \in SUBSET AllParams}

QuotaChars == {"-", "0", "1", "5", "6", "x"}
QuotaInputs ==
    {<<>>} \cup {<<t>> : t \in UNION {[1..k -> QuotaChars] : k \in 0..MaxQuotaLen}}
CoarseQuotas == {<<>>, << <<"5", "0">> >>, << <<"6", "0">> >>, << <<"x">> >>}

LanguageInputs == {<<>>, <<"en">>, <<"fr">>, <<"xx">>}
CurrencyInputs == {<<>>, <<"USD">>, <<"EUR">>, <<"GBP">>, <<"XYZ">>}
NationalityInputs == {<<>>, <<"US">>, <<"XX">>}

Pax(age_text) == <<age_text>>
AgeInputs == {<<>>, Pax(<<"5">>), Pax(<<"6">>), Pax(<<"x">>)}
GoodRoom == <<Pax(<<"3", "0">>), Pax(<<"5">>)>>
ChildOnlyRoom == <<Pax(<<"4">>)>>
ManyChildrenRoom == <<Pax(<<"3">>), Pax(<<"4">>), Pax(<<"5">>), Pax(<<"2", "5">>)>>
ManyGuestsRoom ==
    <<Pax(<<"3", "0">>), Pax(<<"2", "5">>), Pax(<<"2", "0">>), Pax(<<"1", "5">>),
      Pax(<<"1", "0">>)>>
TestRooms == {GoodRoom, ChildOnlyRoom, ManyChildrenRoom, ManyGuestsRoom}
PaxesInputs ==
    {<<room>> : room \in UNION {[1..k -> AgeInputs] : k \in 0..MaxPax}}
      \cup UNION {[1..k -> TestRooms] : k \in 0..MaxRooms}

DateInputs ==
    {<<>>} \cup {<<[d |-> d, m |-> m, y |-> y]>> :
                   d \in {1, 2, 3, 4, 26, 27, 28, 29, 30}, m \in {2, 3}, y \in {2024, 2025}}
ClockInputs ==
    {[day |-> day, tod |-> tod] :
        day \in {ToOrdinal(2025, 2, 26), ToOrdinal(2024, 2, 27)}, tod \in 0..MaxTod}

At(docs, clocks) == {[doc |-> d, now |-> c] : d \in docs, c \in clocks}

\* every stage right or wrong, in every combination
MixedDocs ==
    {Doc(l, q, c, n, se[1], se[2], p, r) :
        l \in {<<"en">>, <<"xx">>}, q \in CoarseQuotas, c \in {<<"USD">>, <<"XYZ">>},
        n \in {<<"US">>, <<"XX">>},
        se \in {<<GoodStart, GoodEnd>>, <<SoonStart, GoodEnd>>,
                <<GoodStart, ShortEnd>>, <<SoonStart, SoonStart>>},
        p \in {GoodParameter, <<>>, <<{"username"}>>},
        r \in {<<>>, <<GoodRoom>>, <<ChildOnlyRoom>>}}

\* every language, currency and nationality
FieldDocs ==
    {Doc(l, q, c, n, GoodStart, GoodEnd, GoodParameter, <<GoodRoom>>) :
        l \in LanguageInputs, q \in CoarseQuotas, c \in CurrencyInputs,
        n \in NationalityInputs}

\* every optionsQuota text and every credential block
QuotaDocs ==
    {Doc(<<"en">>, q, <<"USD">>, <<"US">>, GoodStart, GoodEnd, p, <<GoodRoom>>) :
        q \in QuotaInputs, p \in {GoodParameter, <<{"password", "CompanyID"}>>}}
ParameterDocs ==
    {Doc(l, q, <<"USD">>, <<"US">>, GoodStart, GoodEnd, p, r) :
        l \in {<<"en">>, <<"xx">>}, q \in CoarseQuotas, p \in ParameterInputs,
        r \in {<<GoodRoom>>, <<ManyGuestsRoom>>}}

\* every occupancy
RoomDocs ==
    {Doc(<<"en">>, <<>>, <<"USD">>, n, GoodStart, GoodEnd, GoodParameter, r) :
        n \in {<<"US">>, <<"XX">>}, r \in PaxesInputs}

\* every pair of dates at every clock
DateDocs ==
    {Doc(<<"en">>, <<>>, <<"EUR">>, <<"US">>, s, e, GoodParameter, <<GoodRoom>>) :
        s \in DateInputs, e \in DateInputs}

Scenarios ==
    At(MixedDocs \cup FieldDocs \cup QuotaDocs \cup ParameterDocs \cup RoomDocs,
       {BaseClock})
      \cup At(DateDocs, ClockInputs)

----------------------------------------------------------------------------
(* process_request, one stage at a time.                                   *)

Init ==
    /\ \E sc \in Scenarios : xml = sc.doc /\ clock = sc.now
    /\ pc = "extract"
    /\ fields = <<>>
    /\ rooms = <<>>
    /\ room_idx = 1
    /\ dates = <<>>
    /\ parsed_data = <<>>
    /\ response = <<>>
    /\ error = NoError
    /\ stages = <<>>

Enter(stage) ==
    IF stages # <<>> /\ stages[Len(stages)] = stage THEN stages
    ELSE Append(stages, stage)

\* parse_xml: root.findtext(...) and int(...)
ExtractStep ==
    /\ pc = "extract"
    /\ stages' = Enter("extract")
    /\ LET r == ParseFields(xml)
       IN  IF r.ok
           THEN fields' = <<r.fields>> /\ pc' = StageAfter("extract") /\ error' = error
           ELSE fields' = fields /\ pc' = "failed" /\ error' = r.err
    /\ UNCHANGED <<xml, clock, rooms, room_idx, dates, parsed_data, response>>

\* parse_xml: the credential block
ParametersStep ==
    /\ pc = "parameters"
    /\ stages' = Enter("parameters")
    /\ LET e == CheckParameters(xml.parameter)
       IN  IF e = NoError
           THEN pc' = StageAfter("parameters") /\ error' = error
           ELSE pc' = "failed" /\ error' = e
    /\ UNCHANGED <<xml, clock, fields, rooms, room_idx, dates, parsed_data, response>>

\* ParseRoomStep leaving an invalid group out instead of raising
ParseRoomStep_SkipInvalid ==
    /\ pc = "rooms"
    /\ room_idx <= Len(xml.paxes)
    /\ stages' = Enter("rooms")
    /\ LET b == BuildPaxList(xml.paxes[room_idx])
           e == IF b.ok THEN ValidateRoom(b.pax_list, b.child_count) ELSE b.err
       IN  rooms' = IF e = NoError THEN Append(rooms, b.pax_list) ELSE rooms
    /\ room_idx' = room_idx + 1
    /\ UNCHANGED <<xml, clock, pc, fields, dates, parsed_data, response, error>>

\* _parse_rooms: one iteration of the loop over the occupancy groups
ParseRoomStep ==
    /\ pc = "rooms"
    /\ room_idx <= Len(xml.paxes)
    /\ stages' = Enter("rooms")
    /\ LET b == BuildPaxList(xml.paxes[room_idx])
           e == IF b.ok THEN ValidateRoom(b.pax_list, b.child_count) ELSE b.err
       IN  IF e = NoError
           THEN /\ rooms' = Append(rooms, b.pax_list)
                /\ room_idx' = room_idx + 1
                /\ pc' = pc
                /\ error' = error
           ELSE /\ rooms' = rooms
                /\ room_idx' = room_idx
                /\ pc' = "failed"
                /\ error' = e
    /\ UNCHANGED <<xml, clock, fields, dates, parsed_data, response>>

\* _parse_rooms: return rooms
RoomsReturnStep ==
    /\ pc = "rooms"
    /\ room_idx > Len(xml.paxes)
    /\ stages' = Enter("rooms")
    /\ pc' = StageAfter("rooms")
    /\ UNCHANGED <<xml, clock, fields, rooms, room_idx, dates, parsed_data, response,
                   error>>

\* parse_xml: self._validate_basic_fields(...)
BasicStep ==
    /\ pc = "basic"
    /\ stages' = Enter("basic")
    /\ LET f == fields[1]
           e == ValidateBasicFields(f.language, f.currency, f.nationality,
                                    f.options_quota)
       IN  IF e = NoError
           THEN pc' = StageAfter("basic") /\ error' = error
           ELSE pc' = "failed" /\ error' = e
    /\ UNCHANGED <<xml, clock, fields, rooms, room_idx, dates, parsed_data, response>>

\* parse_xml: self._validate_dates(...)
DatesStep ==
    /\ pc = "dates"
    /\ stages' = Enter("dates")
    /\ LET f == fields[1]
           r == ValidateDates(f.start_date_str, f.end_date_str, clock)
       IN  IF r.ok
           THEN /\ dates' = <<[start_date |-> r.start_date, end_date |-> r.end_date]>>
                /\ pc' = StageAfter("dates")
                /\ error' = error
           ELSE dates' = dates /\ pc' = "failed" /\ error' = r.err
    /\ UNCHANGED <<xml, clock, fields, rooms, room_idx, parsed_data, response>>

\* parse_xml: build and return response_data
RecordStep ==
    /\ pc = "record"
    /\ stages' = Enter("record")
    /\ parsed_data' = <<BuildRecord(fields[1], dates[1], rooms)>>
    /\ pc' = StageAfter("record")
    /\ UNCHANGED <<xml, clock, fields, rooms, room_idx, dates, response, error>>

\* process_request: return self.generate_response(parsed_data)
PriceStep ==
    /\ pc = "price"
    /\ stages' = Enter("price")
    /\ response' = <<generate_response(parsed_data[1])>>
    /\ pc' = StageAfter("price")
    /\ UNCHANGED <<xml, clock, fields, rooms, room_idx, dates, parsed_data, error>>

Next ==
    \/ ExtractStep
    \/ ParametersStep
    \/ ParseRoomStep
    \/ RoomsReturnStep
    \/ BasicStep
    \/ DatesStep
    \/ RecordStep
    \/ PriceStep

Spec == Init /\ [][Next]_vars

----------------------------------------------------------------------------
(* What a document asks for, read off the document itself.                 *)

Terminal == pc \in {"done", "failed"}
Accepted == parsed_data # <<>>
FailedAt(stage) == pc = "failed" /\ error # NoError /\ error[1].stage = stage
FailedWith(msg) == pc = "failed" /\ error # NoError /\ error[1].msg = msg

Order == <<"extract", "parameters", "rooms", "basic", "dates", "record", "price">>
IsPrefix(s, t) == Len(s) <= Len(t) /\ \A i \in 1..Len(s) : s[i] = t[i]

ChildrenMsg == <<"Exceeded maximum allowed children per room">>
GuestsMsg == <<"Exceeded maximum allowed guests per room">>
UnaccompaniedMsg ==
    <<"A child must have at least one accompanying adult in the same room">>
LeadMsg == <<"StartDate must be at least 2 days from today">>
StayMsg == <<"Stay duration must be at least 3 nights">>
QuotaMsg == <<"optionsQuota cannot be greater than 50">>

AgeOf(pax) == PyInt(findtext(pax, <<"0">>))
AgesParse(room) == \A i \in 1..Len(room) : AgeOf(room[i]).ok
Children(room) == Cardinality({i \in 1..Len(room) : AgeOf(room[i]).val <= CHILD_AGE_LIMIT})
Adults(room) == Cardinality({i \in 1..Len(room) : AgeOf(room[i]).val > CHILD_AGE_LIMIT})

\* the occupancy rules of a group whose ages all parse
RoomVerdict(room) ==
    IF Children(room) > ALLOWED_CHILD_COUNT_PER_ROOM THEN ChildrenMsg
    ELSE IF Len(room) > ALLOWED_ROOM_GUEST_COUNT THEN GuestsMsg
    ELSE IF Children(room) >= 1 /\ Adults(room) = 0 THEN UnaccompaniedMsg
    ELSE <<>>
RoomBad(room) == ~AgesParse(room) \/ RoomVerdict(room) # <<>>
RespectsOccupancy(room) ==
    /\ Children(room) <= ALLOWED_CHILD_COUNT_PER_ROOM
    /\ Len(room) <= ALLOWED_ROOM_GUEST_COUNT
    /\ ~(Children(room) >= 1 /\ Adults(room) = 0)

\* the Pax list _parse_rooms is to build from a group whose ages all parse
Guests(room) ==
    [i \in 1..Len(room) |->
        [type |-> IF AgeOf(room[i]).val <= CHILD_AGE_LIMIT THEN "Child" ELSE "Adult",
         age |-> AgeOf(room[i]).val]]

QuotaPresent(doc) == doc.optionsQuota # <<>>
QuotaParses(doc) == ~QuotaPresent(doc) \/ PyInt(doc.optionsQuota[1]).ok
QuotaValue(doc) == IF QuotaPresent(doc) THEN PyInt(doc.optionsQuota[1]).val ELSE 20
LanguageOf(doc) == IF doc.language = <<>> THEN DEFAULT_LANGUAGE ELSE doc.language[1]
CurrencyOf(doc) == IF doc.currency = <<>> THEN DEFAULT_CURRENCY ELSE doc.currency[1]
NationalityOf(doc) ==
    IF doc.nationality = <<>> THEN DEFAULT_NATIONALITY ELSE doc.nationality[1]

BadExtract(doc) == ~QuotaParses(doc)
BadParameters(doc) == doc.parameter = <<>> \/ doc.parameter[1] # AllParams
BadRooms(doc) == \E i \in 1..Len(doc.paxes) : RoomBad(doc.paxes[i])
BadBasic(doc) ==
    \/ LanguageOf(doc) \notin VALID_LANGUAGES
    \/ CurrencyOf(doc) \notin VALID_CURRENCIES
    \/ NationalityOf(doc) \notin VALID_NATIONALITIES
    \/ (QuotaParses(doc) /\ QuotaValue(doc) > 50)
BadDates(doc, now) == ~ValidateDates(doc.startDate, doc.endDate, now).ok

\* the first stage, in the order of Order, one of whose rules the document breaks
FirstBad(doc, now) ==
    IF BadExtract(doc) THEN "extract"
    ELSE IF BadParameters(doc) THEN "parameters"
    ELSE IF BadRooms(doc) THEN "rooms"
    ELSE IF BadBasic(doc) THEN "basic"
    ELSE IF BadDates(doc, now) THEN "dates"
    ELSE "none"

DatesParse(doc) == Strptime(doc.startDate).ok /\ Strptime(doc.endDate).ok
StartDay(doc) == ToOrdinal(doc.startDate[1].y, doc.startDate[1].m, doc.startDate[1].d)
EndDay(doc) == ToOrdinal(doc.endDate[1].y, doc.endDate[1].m, doc.endDate[1].d)
DatesChecked == "dates" \in {stages[i] : i \in 1..Len(stages)} /\ pc # "dates"

----------------------------------------------------------------------------
(* Claims.                                                                 *)

PaxListOk(pl) ==
    LET children == Cardinality({i \in 1..Len(pl) : pl[i].type = "Child"})
        adults == Cardinality({i \in 1..Len(pl) : pl[i].type = "Adult"})
    IN  /\ children <= ALLOWED_CHILD_COUNT_PER_ROOM
        /\ Len(pl) <= ALLOWED_ROOM_GUEST_COUNT
        /\ ~(children >= 1 /\ adults = 0)

\* C1: a group built by _parse_rooms (guests Child when age <= the cutoff,
\* Adult otherwise) is accepted if and only if it has at most the allowed
\* children, at most the allowed guests, and not only children; a rejected
\* group raises the children message when the children are too many, the
\* guests message when only the guests are too many, the unaccompanied-child
\* message otherwise; no record returned holds a room breaking a rule.
C1_RoomAcceptedIffRulesHold ==
    /\ Len(rooms) <= Len(xml.paxes)
    /\ \A i \in 1..Len(rooms) :
          /\ AgesParse(xml.paxes[i])
          /\ rooms[i] = Guests(xml.paxes[i])
          /\ RespectsOccupancy(xml.paxes[i])
    /\ (FailedAt("rooms") /\ AgesParse(xml.paxes[room_idx])) =>
          LET room == xml.paxes[room_idx]
          IN  /\ ~RespectsOccupancy(room)
              /\ error[1].type = "ValueError"
              /\ error[1].msg =
                    IF Children(room) > ALLOWED_CHILD_COUNT_PER_ROOM THEN ChildrenMsg
                    ELSE IF Len(room) > ALLOWED_ROOM_GUEST_COUNT THEN GuestsMsg
                    ELSE UnaccompaniedMsg
    /\ Accepted =>
          /\ "rooms" \in DOMAIN parsed_data[1] =>
                \A i \in 1..Len(parsed_data[1].rooms) : PaxListOk(parsed_data[1].rooms[i])
          /\ \A i \in 1..Len(xml.paxes) : RespectsOccupancy(xml.paxes[i])

\* C1 witness: a first group with a child and an adult was accepted and the
\* second, within both limits but of children only, was rejected.
C1_Witness ==
    /\ FailedWith(UnaccompaniedMsg)
    /\ Len(rooms) = 1
    /\ Children(xml.paxes[1]) >= 1
    /\ Children(xml.paxes[2]) <= ALLOWED_CHILD_COUNT_PER_ROOM

\* C2: the lead-time check rejects a start date equal to the current
\* calendar date and accepts a start date of the current calendar date plus
\* 2 days or later, whatever the time of day at which validation runs.
C2_LeadTimeByCalendarDate ==
    (DatesChecked /\ DatesParse(xml)) =>
        /\ StartDay(xml) = clock.day => FailedWith(LeadMsg)
        /\ StartDay(xml) >= clock.day + 2 => ~FailedWith(LeadMsg)

\* C3: a request that passes the lead-time check is rejected for its stay
\* when end - start is under 3 whole days (end on or before start included)
\* and accepted by the date validation when it is 3 or more; a request too
\* soon and too short is rejected with the lead-time error.
C3_StayLengthAfterLeadTime ==
    (DatesChecked /\ DatesParse(xml)) =>
        /\ FailedWith(LeadMsg) \/ FailedWith(StayMsg) \/ pc \in {"record", "price", "done"}
        /\ ~FailedWith(LeadMsg) =>
              /\ FailedWith(StayMsg) <=> EndDay(xml) - StartDay(xml) < 3
              /\ dates # <<>> <=> EndDay(xml) - StartDay(xml) >= 3
        /\ (StartDay(xml) < clock.day + 2 /\ EndDay(xml) - StartDay(xml) < 3) =>
              FailedWith(LeadMsg)
        /\ dates # <<>> =>
              /\ dates[1].start_date = [day |-> StartDay(xml), tod |-> 0]
              /\ dates[1].end_date = [day |-> EndDay(xml), tod |-> 0]

\* C3 witness: validation ran at midnight, the start is two days ahead, and
\* the stay of two nights was rejected.
C3_Witness ==
    /\ FailedWith(StayMsg)
    /\ DatesParse(xml)
    /\ StartDay(xml) = clock.day + 2
    /\ EndDay(xml) - StartDay(xml) = 2


StagesRun(upto) ==
    LET k == CHOOSE i \in 1..Len(Order) : Order[i] = upto IN SubSeq(Order, 1, k)

\* C4: the stages run in the order extraction (credential check included),
\* rooms, basic fields, dates, pricing; a request breaking rules of several
\* stages fails with the error of the earliest of them, no later stage runs,
\* no record and no response is returned, and pricing runs only after every
\* earlier stage succeeded.
C4_EarliestStageFails ==
    /\ IsPrefix(stages, Order)
    /\ pc = "failed" =>
          /\ FirstBad(xml, clock) # "none"
          /\ error[1].stage = FirstBad(xml, clock)
          /\ stages = StagesRun(FirstBad(xml, clock))
          /\ parsed_data = <<>>
          /\ response = <<>>
    /\ (Accepted \/ response # <<>>) => FirstBad(xml, clock) = "none"
    /\ response # <<>> => (Accepted /\ stages = Order /\ error = NoError)
    /\ (Terminal /\ FirstBad(xml, clock) = "none") => pc = "done"

\* C4 witness: the occupancy, a basic field and the dates are all wrong, and
\* the request failed in the occupancy stage.
C4_Witness ==
    /\ FailedAt("rooms")
    /\ BadBasic(xml)
    /\ BadDates(xml, clock)

BasicChecked == "basic" \in {stages[i] : i \in 1..Len(stages)}
FailedBasic == FailedAt("basic")

OtherwiseValid(doc, now) == FirstBad([doc EXCEPT !.optionsQuota = <<>>], now) = "none"

\* C6: for a request that is otherwise valid, an absent optionsQuota gives a
\* record with options_quota = 20, an integer value <= 50 is carried into
\* the record, and a value > 50 is rejected with no record.
C6_OptionsQuota ==
    /\ Accepted => (QuotaParses(xml) /\ parsed_data[1].options_quota = QuotaValue(xml)
                       /\ QuotaValue(xml) <= 50)
    /\ (Accepted /\ ~QuotaPresent(xml)) => parsed_data[1].options_quota = 20
    /\ (Terminal /\ OtherwiseValid(xml, clock)) =>
          /\ ~QuotaPresent(xml) => (pc = "done" /\ Accepted)
          /\ (QuotaParses(xml) /\ QuotaValue(xml) <= 50) => (pc = "done" /\ Accepted)
          /\ (QuotaParses(xml) /\ QuotaValue(xml) > 50) =>
                (FailedWith(QuotaMsg) /\ ~Accepted /\ response = <<>>)

\* C6 witness: a quota of exactly 50 was given and is in the returned record.
C6_Witness ==
    /\ pc = "done"
    /\ QuotaPresent(xml)
    /\ parsed_data[1].options_quota = 50

MissingMsg(doc) ==
    IF doc.parameter = <<>> THEN <<"Missing required <Parameter> element">>
    ELSE IF "password" \notin doc.parameter[1]
    THEN <<"Missing required parameter: ", "password">>
    ELSE IF "username" \notin doc.parameter[1]
    THEN <<"Missing required parameter: ", "username">>
    ELSE <<"Missing required parameter: ", "CompanyID">>

\* C7 (as stated): a request without the Parameter element, or whose
\* Parameter lacks a required attribute, is rejected with the missing-field
\* error naming the first missing attribute, whatever the rest of the
\* request (rooms, language, currency, nationality, quota, dates) holds.
C7_MissingCredentialAlwaysReported ==
    (Terminal /\ BadParameters(xml)) => FailedWith(MissingMsg(xml))

\* C7 (amended): the same, for every request whose optionsQuota is absent or
\* is the text of an integer; a request whose optionsQuota text is not an
\* integer is rejected by int() before the credential block is looked at.
C7_MissingCredentialReported ==
    /\ (Terminal /\ BadParameters(xml) /\ QuotaParses(xml)) =>
          (FailedWith(MissingMsg(xml)) /\ error[1].type = "ValueError"
              /\ ~Accepted /\ response = <<>>)
    /\ (Terminal /\ ~QuotaParses(xml)) => FailedAt("extract")
    /\ FailedAt("parameters") => BadParameters(xml)

\* C7 witness: password and username are both missing, the occupancy is
\* wrong too, and the error names password.
C7_Witness ==
    /\ FailedWith(<<"Missing required parameter: ", "password">>)
    /\ xml.parameter = <<{"CompanyID"}>>
    /\ BadRooms(xml)


\* C8: for an accepted request with currency c the exchange rate is the
\* table's entry for (USD, c), or 1.0 when there is none, and the selling
\* price is the marked-up net price rounded to 2 decimals, then multiplied
\* by the rate; selling_currency is the request's currency.
C8_SellingPrice ==
    response # <<>> =>
        LET price == response[1].price
            c == CurrencyOf(xml)
            rate == IF <<"USD", c>> \in DOMAIN EXCHANGE_RATES
                    THEN EXCHANGE_RATES[<<"USD", c>>] ELSE 100
            \* net + net * markup / 100, in 1/1000 of a cent
            marked == NET_PRICE * 1000 + NET_PRICE * MARKUP_PERCENTAGE
        IN  /\ price.exchange_rate = rate
            /\ price.markup = MARKUP_PERCENTAGE
            /\ price.net = NET_PRICE
            /\ price.selling_currency = c
            /\ \E cents \in (marked \div 1000)..(marked \div 1000 + 1) :
                  /\ 2 * (cents * 1000 - marked) <= 1000
                  /\ 2 * (marked - cents * 1000) <= 1000
                  /\ price.selling_price = cents * rate

\* C8 witness: a request in EUR, whose rate is in the table, was priced.
C8_Witness ==
    /\ pc = "done"
    /\ CurrencyOf(xml) = "EUR"
    /\ response[1].price.exchange_rate # 100

\* C9: the language, currency and nationality of a returned record are
\* those of the request (the defaults when absent), each in its allowed
\* set; the response's market is that nationality and its currency and
\* selling_currency are that currency.
C9_FieldsPassThrough ==
    /\ Accepted =>
          /\ parsed_data[1].language = LanguageOf(xml)
          /\ parsed_data[1].currency = CurrencyOf(xml)
          /\ parsed_data[1].nationality = NationalityOf(xml)
          /\ parsed_data[1].language \in VALID_LANGUAGES
          /\ parsed_data[1].currency \in VALID_CURRENCIES
          /\ parsed_data[1].nationality \in VALID_NATIONALITIES
    /\ response # <<>> =>
          /\ response[1].market = NationalityOf(xml)
          /\ response[1].price.currency = CurrencyOf(xml)
          /\ response[1].price.selling_currency = CurrencyOf(xml)

\* C9 witness: a request in French, with no Currency element, was answered.
C9_Witness ==
    /\ pc = "done"
    /\ xml.language = <<"fr">>
    /\ xml.currency = <<>>
    /\ xml.nationality # <<>>

FirstBadRoom(doc) ==
    CHOOSE i \in 1..Len(doc.paxes) :
        RoomBad(doc.paxes[i]) /\ \A j \in 1..(i - 1) : ~RoomBad(doc.paxes[j])

\* C10: the groups are validated one by one in document order: the error is
\* that of the first invalid group, no later group is examined, no partial
\* list of rooms is returned; a document with no group is not an error and
\* gives a record with no rooms.
C10_FirstInvalidRoomAborts ==
    /\ BadRooms(xml) => room_idx <= FirstBadRoom(xml)
    /\ Len(rooms) \in {room_idx - 1, room_idx}
    /\ FailedAt("rooms") =>
          /\ BadRooms(xml)
          /\ room_idx = FirstBadRoom(xml)
          /\ Len(rooms) = room_idx - 1
          /\ AgesParse(xml.paxes[room_idx]) =>
                error[1].msg = RoomVerdict(xml.paxes[room_idx])
          /\ ~AgesParse(xml.paxes[room_idx]) =>
                error[1].msg[1] = "invalid literal for int() with base 10: "
          /\ ~Accepted
          /\ response = <<>>
    /\ ("rooms" \in {stages[i] : i \in 1..Len(stages)} /\ pc # "rooms" /\ BadRooms(xml)) =>
          FailedAt("rooms")
    /\ Accepted =>
          /\ xml.paxes = <<>> <=> "rooms" \notin DOMAIN parsed_data[1]
          /\ xml.paxes # <<>> =>
                (Len(parsed_data[1].rooms) = Len(xml.paxes)
                   /\ \A i \in 1..Len(xml.paxes) :
                         parsed_data[1].rooms[i] = Guests(xml.paxes[i]))
    /\ (Terminal /\ xml.paxes = <<>> /\ FirstBad(xml, clock) = "none") =>
          (pc = "done" /\ "rooms" \notin DOMAIN response[1])

\* C10 witness: two groups, both invalid for different reasons; the request
\* failed on the first with the first's error.
C10_Witness ==
    /\ FailedAt("rooms")
    /\ Len(xml.paxes) = 2
    /\ room_idx = 1
    /\ RoomBad(xml.paxes[2])
    /\ AgesParse(xml.paxes[1]) /\ AgesParse(xml.paxes[2])
    /\ RoomVerdict(xml.paxes[1]) # RoomVerdict(xml.paxes[2])

====
